---------------------------- MODULE Spec2Model ----------------------------
(***************************************************************************)
(* Model of complete_analysis.py: the synthetic retail data generators    *)
(* (stores, products, customers, transactions, inventory), the financial  *)
(* derivation of a transaction, the regional and customer aggregations,   *)
(* the cluster naming rule and the stage sequence of the analysis         *)
(* pipeline.                                                               *)
(*                                                                         *)
(* Numbers.  Python floats are modelled as exact decimals held in         *)
(* integers.  Unrounded money is held in units of 1e-4 rupee, stored      *)
(* (rounded) money in paise (1e-2 rupee), distances in metres (1e-3 km),  *)
(* sampled fractions in whole percent, percentages stored with two        *)
(* decimals in units of 1e-2 %.                                           *)
(* round(x, 2) is modelled as round-half-to-even on the exact decimal;    *)
(* binary representation error of floats is not modelled.                 *)
(*                                                                         *)
(* Samplers (np.random.*, DataFrame.sample) are nondeterministic choices  *)
(* over small sets of representative values inside the sampler's range.   *)
(***************************************************************************)
EXTENDS Integers, Sequences, FiniteSets, TLC

VARIABLES
    pc,                \* position of the script
    i,                 \* loop counter of the running generator loop
    tier_ix,           \* index into the (cities, tier_name, num_stores) list
    store_id,          \* next store number (line 123)
    stores_data,       \* rows appended by the store loop / stores_df
    customers_data,    \* rows appended by the customer loop / customers_df
    products_df,       \* the product table read by the transaction loop
    transactions_data, \* rows appended by the transaction loop / transactions_df
    loc,               \* the local names of the running loop's iteration
    regional_perf,     \* Section 2 group-by table, indexed by region_tier
    store_perf,        \* Section 4 per-store table (store_id, tier, high_risk)
    le_classes,        \* classes of the fitted LabelEncoder `le`
    trained,           \* TRUE once the random forest branch has run
    warned,            \* TRUE once the insufficient-diversity warning is printed
    images,            \* chart files written by plt.savefig
    cluster_profiles,  \* Section 6 per-cluster averages
    cluster_names,     \* Section 6 dict cluster -> name
    listed_files,      \* chart files printed under "Generated Files"
    error,             \* the exception that ended the script, or "none"
    prod_id,           \* next product number (line 150)
    inventory_data,    \* rows appended by the inventory loop / inventory_df
    inv_id,            \* next inventory number (line 324)
    inv_pos,           \* position of the inventory loops: store and product row
    behavior_summary,  \* Section 2 customer behaviour table, by region_tier
    insights           \* Section 7: the values the insight statements compute

vars == <<pc, i, tier_ix, store_id, stores_data, customers_data, products_df,
          transactions_data, loc, regional_perf, store_perf, le_classes,
          trained, warned, images, cluster_profiles, cluster_names,
          listed_files, error, prod_id, inventory_data, inv_id, inv_pos,
          behavior_summary, insights>>

-----------------------------------------------------------------------------
(* Bounds of the model *)

\* customers generated (the script generates n_customers = 15000)
MaxCustomers == 1
\* transactions generated by the transaction loop (the script: 50000)
MaxTxns == 1
\* rows of the transaction table the analysis stages are run on
MaxPipeTxns == 3
\* times the regional aggregation is run on one transaction table
MaxAggRuns == 2
\* stores the inventory loop runs over (the script: all 120)
MaxInvStores == 3
\* largest per-cluster average (revenue, purchase count) of a cluster profile
MaxProfileVal == 3

-----------------------------------------------------------------------------
(* Arithmetic helpers *)

Min(a, b) == IF a < b THEN a ELSE b
Max(a, b) == IF a > b THEN a ELSE b

\* n / d rounded to the nearest integer, ties to even (d > 0)
RoundDiv(n, d) ==
    LET q == n \div d
        r == n % d
    IN  IF 2 * r > d THEN q + 1
        ELSE IF 2 * r < d THEN q
        ELSE IF q % 2 = 0 THEN q ELSE q + 1

\* round(x, 2) of an amount held in 1e-4 rupee, in paise
Round2(x) == RoundDiv(x, 100)

\* round(a / b * 100, 2) in units of 1e-2 %, for b > 0: a * 10000 / b rounded
\* half to even, by long division so that no product leaves 32 bits
RECURSIVE Digits(_, _, _, _)
Digits(q, r, b, n) ==
    IF n = 0 THEN <<q, r>>
    ELSE Digits(q * 10 + ((r * 10) \div b), (r * 10) % b, b, n - 1)

RoundPct(a, b) ==
    LET d == Digits(a \div b, a % b, b, 4)
        q == d[1]
        r == d[2]
    IN  IF 2 * r > b THEN q + 1
        ELSE IF 2 * r < b THEN q
        ELSE IF q % 2 = 0 THEN q ELSE q + 1

\* int(x) of a sample held in tenths: truncation toward zero
IntTrunc(x10) == IF x10 >= 0 THEN x10 \div 10 ELSE -((-x10) \div 10)

RECURSIVE SumSeq(_)
SumSeq(s) == IF s = <<>> THEN 0 ELSE Head(s) + SumSeq(Tail(s))

SeqRange(s) == {s[k] : k \in 1..Len(s)}

-----------------------------------------------------------------------------
(* Reference data *)

Tiers == {"Metro", "Tier 2", "Tier 3"}

\* (city, state, population, infrastructure score in tenths)
metro_cities == <<
    <<"Mumbai", "Maharashtra", 20400000, 95>>,
    <<"Delhi", "Delhi", 16750000, 92>>,
    <<"Bangalore", "Karnataka", 12330000, 90>>,
    <<"Hyderabad", "Telangana", 10000000, 88>>,
    <<"Pune", "Maharashtra", 6430000, 85>>,
    <<"Chennai", "Tamil Nadu", 10970000, 87>> >>

tier2_cities == <<
    <<"Jaipur", "Rajasthan", 3050000, 75>>,
    <<"Lucknow", "Uttar Pradesh", 2900000, 72>>,
    <<"Coimbatore", "Tamil Nadu", 2150000, 78>>,
    <<"Indore", "Madhya Pradesh", 2170000, 74>>,
    <<"Bhopal", "Madhya Pradesh", 1800000, 69>>,
    <<"Nagpur", "Maharashtra", 2400000, 73>>,
    <<"Vadodara", "Gujarat", 1670000, 76>>,
    <<"Ludhiana", "Punjab", 1620000, 71>>,
    <<"Visakhapatnam", "Andhra Pradesh", 1730000, 70>> >>

tier3_cities == <<
    <<"Raipur", "Chhattisgarh", 1010000, 62>>,
    <<"Jamshedpur", "Jharkhand", 630000, 65>>,
    <<"Guwahati", "Assam", 960000, 60>>,
    <<"Ranchi", "Jharkhand", 1070000, 63>>,
    <<"Agra", "Uttar Pradesh", 1590000, 58>>,
    <<"Nashik", "Maharashtra", 1480000, 64>>,
    <<"Udaipur", "Rajasthan", 475000, 61>>,
    <<"Ajmer", "Rajasthan", 550000, 59>>,
    <<"Mysore", "Karnataka", 920000, 67>> >>

\* the list the store loop iterates over (line 125)
TierSpecs == <<
    [cities |-> metro_cities, tier_name |-> "Metro",  num_stores |-> 40],
    [cities |-> tier2_cities, tier_name |-> "Tier 2", num_stores |-> 45],
    [cities |-> tier3_cities, tier_name |-> "Tier 3", num_stores |-> 35] >>

-----------------------------------------------------------------------------
(* Identifiers: f'STR{n:04d}' and friends *)

DigitStr == <<"0", "1", "2", "3", "4", "5", "6", "7", "8", "9">>

Digit(n, p) == DigitStr[((n \div p) % 10) + 1]

\* f'{n:04d}' for 0 <= n <= 9999
Pad4(n) == Digit(n, 1000) \o Digit(n, 100) \o Digit(n, 10) \o Digit(n, 1)

StoreIdStr(n) == "STR" \o Pad4(n)

\* f'CUST{n:06d}', f'TXN{n:07d}' for 0 <= n <= 9999
CustIdStr(n) == "CUST" \o "00" \o Pad4(n)
TxnIdStr(n) == "TXN" \o "000" \o Pad4(n)
InvIdStr(n) == "INV" \o "00" \o Pad4(n)


-----------------------------------------------------------------------------
(* Values of the variables a specification does not use *)

NoLoc == [set |-> FALSE]

IdlePipeline ==
    /\ regional_perf = <<>>
    /\ store_perf = <<>>
    /\ le_classes = {}
    /\ trained = FALSE
    /\ warned = FALSE
    /\ images = {}
    /\ cluster_profiles = <<>>
    /\ cluster_names = <<>>
    /\ listed_files = {}
    /\ error = "none"
    /\ behavior_summary = <<>>
    /\ insights = <<>>

pipeVars == <<regional_perf, store_perf, le_classes, trained, warned, images,
              cluster_profiles, cluster_names, listed_files, error,
              behavior_summary, insights>>

NoPos == [store |-> 1, product |-> 1]

IdleInventory ==
    /\ prod_id = 1
    /\ inventory_data = <<>>
    /\ inv_id = 1
    /\ inv_pos = NoPos

invVars == <<prod_id, inventory_data, inv_id, inv_pos>>

-----------------------------------------------------------------------------
(* Store generation, lines 120-144 *)

\* the row appended for slot k (from 0) of tier entry spec, numbered sid;
\* the sampled columns warehouse_distance_km and opening_date are not kept
StoreRow_localid(spec, k, sid) ==
    LET city_info == spec.cities[(k % Len(spec.cities)) + 1]
    IN  [store_id |-> StoreIdStr(k + 1),
         store_name |-> "JioMart " \o city_info[1] \o " Store "
                            \o DigitStr[(k % Len(spec.cities)) + 2],
         region_tier |-> spec.tier_name,
         city |-> city_info[1],
         state |-> city_info[2],
         city_population |-> city_info[3],
         infrastructure_score |-> city_info[4]]

StoreRow_clampcity(spec, k, sid) ==
    LET city_info == spec.cities[Min(k, Len(spec.cities) - 1) + 1]
    IN  [store_id |-> StoreIdStr(sid),
         store_name |-> "JioMart " \o city_info[1] \o " Store "
                            \o DigitStr[(k % Len(spec.cities)) + 2],
         region_tier |-> spec.tier_name,
         city |-> city_info[1],
         state |-> city_info[2],
         city_population |-> city_info[3],
         infrastructure_score |-> city_info[4]]

StoreRow(spec, k, sid) ==
    LET city_info == spec.cities[(k % Len(spec.cities)) + 1]
    IN  [store_id |-> StoreIdStr(sid),
         store_name |-> "JioMart " \o city_info[1] \o " Store "
                            \o DigitStr[(k % Len(spec.cities)) + 2],
         region_tier |-> spec.tier_name,
         city |-> city_info[1],
         state |-> city_info[2],
         city_population |-> city_info[3],
         infrastructure_score |-> city_info[4]]

\* one iteration of the inner loop; the loop headers advance with it
GenStore ==
    /\ pc = "stores"
    /\ LET spec == TierSpecs[tier_ix]
       IN  /\ stores_data' = Append(stores_data, StoreRow(spec, i, store_id))
           /\ store_id' = store_id + 1
           /\ IF i + 1 < spec.num_stores
              THEN /\ i' = i + 1
                   /\ tier_ix' = tier_ix
                   /\ pc' = pc
              ELSE /\ i' = 0
                   /\ tier_ix' = tier_ix + 1
                   /\ pc' = IF tier_ix < Len(TierSpecs) THEN "stores"
                                                        ELSE "stores_done"
    /\ UNCHANGED invVars
    /\ UNCHANGED <<customers_data, products_df, transactions_data, loc>>
    /\ UNCHANGED pipeVars

InitStores ==
    /\ pc = "stores"
    /\ i = 0
    /\ tier_ix = 1
    /\ store_id = 1
    /\ stores_data = <<>>
    /\ customers_data = <<>>
    /\ products_df = <<>>
    /\ transactions_data = <<>>
    /\ loc = NoLoc
    /\ IdleInventory
    /\ IdlePipeline

NextStores == GenStore

SpecStores == InitStores /\ [][NextStores]_vars

\* the number of rows appended before the loop reaches tier entry t
RECURSIVE SlotsBefore(_)
SlotsBefore(t) ==
    IF t <= 1 THEN 0 ELSE SlotsBefore(t - 1) + TierSpecs[t - 1].num_stores

\* stores_df as the loop leaves it: every slot of every tier, in loop order
stores_df ==
    [n \in 1..SlotsBefore(Len(TierSpecs) + 1) |->
        LET t == CHOOSE t \in 1..Len(TierSpecs) :
                     /\ SlotsBefore(t) < n
                     /\ n <= SlotsBefore(t + 1)
        IN  StoreRow(TierSpecs[t], n - SlotsBefore(t) - 1, n)]

TierStores(table, tier) == SelectSeq(table, LAMBDA r : r.region_tier = tier)

\* C10: store generation produces exactly 40 Metro, 45 Tier 2 and 35 Tier 3
\* stores (120 in all) whose store_id values are pairwise distinct and run
\* consecutively from STR0001 to STR0120 across the three tiers.
C10_StoreCountsAndIds ==
    /\ \A a, b \in 1..Len(stores_data) :
          a # b => stores_data[a].store_id # stores_data[b].store_id
    /\ \A a \in 1..Len(stores_data) : stores_data[a].store_id = StoreIdStr(a)
    /\ pc = "stores_done" =>
          /\ Len(stores_data) = 120
          /\ Len(TierStores(stores_data, "Metro")) = 40
          /\ Len(TierStores(stores_data, "Tier 2")) = 45
          /\ Len(TierStores(stores_data, "Tier 3")) = 35
          /\ stores_data[1].store_id = "STR0001"
          /\ stores_data[120].store_id = "STR0120"
          /\ stores_data = stores_df

C10_Witness ==
    /\ pc = "stores_done"
    /\ Len(stores_data) = 120
    /\ stores_data[41].region_tier = "Tier 2"
    /\ stores_data[41].store_id = "STR0041"


CityStores(table, city) == SelectSeq(table, LAMBDA st : st.city = city)

\* C19: within each tier the i-th generated store (i from 0) is assigned the
\* city at index i mod (number of cities of the tier) with that city's state,
\* population and infrastructure score; hence every city of the tier receives
\* at least one store and the store counts of two cities of one tier differ
\* by at most 1.
C19_CitiesCyclic ==
    /\ \A n \in 1..Len(stores_data) :
          \E t \in 1..Len(TierSpecs) :
              /\ SlotsBefore(t) < n
              /\ n <= SlotsBefore(t + 1)
              /\ LET cities == TierSpecs[t].cities
                     k == n - SlotsBefore(t) - 1
                     city_info == cities[(k % Len(cities)) + 1]
                 IN  /\ stores_data[n].region_tier = TierSpecs[t].tier_name
                     /\ stores_data[n].city = city_info[1]
                     /\ stores_data[n].state = city_info[2]
                     /\ stores_data[n].city_population = city_info[3]
                     /\ stores_data[n].infrastructure_score = city_info[4]
    /\ pc = "stores_done" =>
          \A t \in 1..Len(TierSpecs) :
              \A a, b \in SeqRange(TierSpecs[t].cities) :
                  /\ Len(CityStores(stores_data, a[1])) >= 1
                  /\ Len(CityStores(stores_data, a[1]))
                         - Len(CityStores(stores_data, b[1])) <= 1

\* all stores generated: the 40 Metro stores wrap around the 6 cities, the
\* 7th store being in the first city again
C19_Witness ==
    /\ pc = "stores_done"
    /\ stores_data[7].city = "Mumbai"
    /\ Len(CityStores(stores_data, "Mumbai")) = 7
    /\ Len(CityStores(stores_data, "Chennai")) = 6
    /\ Len(CityStores(stores_data, "Mysore")) = 3

-----------------------------------------------------------------------------
(* Customer generation, lines 173-206 *)

\* values np.random.normal may return, in tenths of a year
AgeSamples == {-400, 179, 325, 709, 2000}

\* rows DataFrame.sample(1) may pick from a table of n rows
SampleIdx(n) == {1, n}

\* days np.random.randint(0, 450) may return
RegDaySamples == {0, 449}

IncomeChoices(tier) ==
    IF tier = "Metro" THEN {"25-50K", "50-75K", "75K+"}
    ELSE IF tier = "Tier 2" THEN {"15-25K", "25-50K", "50-75K"}
    ELSE {"10-15K", "15-25K", "25-50K"}

\* line 194
ClampAge_nofloor(age) == Min(age, 70)

ClampAge(age) == Max(18, Min(age, 70))

\* the row appended for customer n; registration_date in days after 2023-01-01;
\* the sampled column digital_literacy_score is not kept
CustomerRow(n, tier, primary_store, normal10, income_bracket, reg_days) ==
    [customer_id |-> CustIdStr(n),
     primary_store_id |-> primary_store.store_id,
     region_tier |-> tier,
     age |-> ClampAge(IntTrunc(normal10)),
     income_bracket |-> income_bracket,
     registration_date |-> reg_days]

GenCustomer ==
    /\ pc = "customers"
    /\ i <= MaxCustomers
    /\ \E tier \in Tiers :
         LET tier_stores == TierStores(stores_data, tier)
         IN  \E k \in SampleIdx(Len(tier_stores)), normal10 \in AgeSamples,
                income_bracket \in IncomeChoices(tier), reg_days \in RegDaySamples :
                  customers_data' = Append(customers_data,
                      CustomerRow(i, tier, tier_stores[k], normal10,
                                  income_bracket, reg_days))
    /\ i' = i + 1
    /\ pc' = IF i < MaxCustomers THEN "customers" ELSE "customers_done"
    /\ UNCHANGED invVars
    /\ UNCHANGED <<tier_ix, store_id, stores_data, products_df,
                   transactions_data, loc>>
    /\ UNCHANGED pipeVars

InitCustomers ==
    /\ pc = "customers"
    /\ i = 1
    /\ tier_ix = Len(TierSpecs) + 1
    /\ store_id = Len(stores_df) + 1
    /\ stores_data = stores_df
    /\ customers_data = <<>>
    /\ products_df = <<>>
    /\ transactions_data = <<>>
    /\ loc = NoLoc
    /\ IdleInventory
    /\ IdlePipeline

NextCustomers == GenCustomer

SpecCustomers == InitCustomers /\ [][NextCustomers]_vars

\* line 180-181: the home store is drawn from the stores of the customer's tier
PrimaryStoreInTier ==
    \A c \in SeqRange(customers_data) :
        \E st \in SeqRange(stores_data) :
            /\ st.store_id = c.primary_store_id
            /\ st.region_tier = c.region_tier

\* C9: whatever the normal sampler returns, every stored customer age
\* satisfies 18 <= age <= 70.
C9_AgeClamped ==
    \A c \in 1..Len(customers_data) :
        /\ customers_data[c].age >= 18
        /\ customers_data[c].age <= 70

\* the floor has acted: a Tier 3 customer whose sample fell below 18 is stored
\* with age 18
C9_Witness ==
    /\ Len(customers_data) >= 1
    /\ customers_data[1].age = 18
    /\ customers_data[1].region_tier = "Tier 3"


-----------------------------------------------------------------------------
(* Product rows, lines 152-168 *)

\* lines 156 and 163: round(cost / (1 - margin_pct/100), 2) in paise, that is
\* cost * 100 / (10000 - margin_pct) rounded, divided in two steps so that
\* the intermediate values stay small
ListPrice_atcost(cost, margin_pct) == RoundDiv(cost, 100)

ListPrice(cost, margin_pct) ==
    LET d == 10000 - margin_pct
    IN  100 * (cost \div d) + RoundDiv(100 * (cost % d), d)

\* the row appended for product n: cost in 1e-4 rupee, margin_pct in 1e-2 %;
\* list_price = cost / (1 - margin_pct/100); the stored columns are rounded
ProductRow(n, item, category, perishable, cost, margin_pct) ==
    [product_id |-> "PRD" \o Pad4(n),
     product_name |-> item,
     category |-> category,
     unit_cost |-> RoundDiv(cost, 100),
     list_price |-> ListPrice(cost, margin_pct),
     target_margin_pct |-> margin_pct,
     is_perishable |-> perishable]

\* rows of the product table the transaction sampler is restricted to here:
\* the first item of Groceries, Fresh Produce, Electronics and Fashion, each
\* at a cost and margin inside its category's ranges (lines 75-118)
ProductRows == <<
    ProductRow(1,  "Basmati Rice 5kg",    "Groceries",     FALSE, 850765,   1500),
    ProductRow(7,  "Seasonal Vegetables", "Fresh Produce", TRUE,  500100,   2000),
    ProductRow(30, "Mobile Phones",       "Electronics",   FALSE, 10000000, 1000),
    ProductRow(35, "T-Shirts",            "Fashion",       FALSE, 10000000, 4000) >>

\* lines 75-118, ranges in rupees and percent
product_categories == <<
    [category |-> "Groceries",
     items |-> <<"Basmati Rice 5kg", "Wheat Flour 10kg", "Sunflower Oil 1L",
                 "Sugar 1kg", "Toor Dal 1kg", "Spices Mix">>,
     cost_range |-> <<40, 250>>, margin_range |-> <<12, 20>>,
     perishable |-> FALSE],
    [category |-> "Fresh Produce",
     items |-> <<"Seasonal Vegetables", "Fresh Fruits", "Milk 1L",
                 "Eggs Dozen", "Paneer 200g", "Fresh Chicken">>,
     cost_range |-> <<30, 180>>, margin_range |-> <<18, 28>>,
     perishable |-> TRUE],
    [category |-> "Packaged Foods",
     items |-> <<"Biscuits Assorted", "Namkeen Mix", "Instant Noodles",
                 "Sauces", "Beverages", "Bread">>,
     cost_range |-> <<25, 150>>, margin_range |-> <<15, 25>>,
     perishable |-> FALSE],
    [category |-> "Personal Care",
     items |-> <<"Shampoo 200ml", "Soap Bar", "Toothpaste", "Face Wash",
                 "Body Lotion", "Hair Oil">>,
     cost_range |-> <<50, 300>>, margin_range |-> <<20, 35>>,
     perishable |-> FALSE],
    [category |-> "Home Care",
     items |-> <<"Detergent 1kg", "Floor Cleaner", "Dishwash Liquid",
                 "Toilet Cleaner", "Air Freshener">>,
     cost_range |-> <<40, 200>>, margin_range |-> <<18, 28>>,
     perishable |-> FALSE],
    [category |-> "Electronics",
     items |-> <<"Mobile Phones", "TWS Earbuds", "Phone Chargers",
                 "Power Banks", "Smart Watches">>,
     cost_range |-> <<500, 15000>>, margin_range |-> <<8, 15>>,
     perishable |-> FALSE],
    [category |-> "Fashion",
     items |-> <<"T-Shirts", "Jeans", "Footwear", "Accessories", "Kids Wear">>,
     cost_range |-> <<200, 2000>>, margin_range |-> <<25, 45>>,
     perishable |-> FALSE] >>

\* what np.random.uniform(lo, hi) returns, a value of [lo, hi), when the
\* sampler is at the low or at the high end of its range; `unit` is the
\* number of model units in one unit of the range
UniformAt(range, end, unit) ==
    IF end = "low" THEN range[1] * unit ELSE range[2] * unit - 1

OtherEnd(end) == IF end = "low" THEN "high" ELSE "low"

\* the sampler patterns of a run: the end of the range the cost and the
\* margin samples sit at, and whether the ends swap from one product to the
\* next
SamplerPatterns ==
    [cost_end : {"low", "high"}, margin_end : {"low", "high"},
     alternate : BOOLEAN]

\* lines 152-168, one iteration of the inner loop and the loop headers that
\* follow it; loc holds the loop position and the sampler pattern
GenProduct ==
    /\ pc = "products"
    /\ LET details == product_categories[loc.cat_ix]
           cost == UniformAt(details.cost_range, loc.cost_end, 10000)
           margin_pct == UniformAt(details.margin_range, loc.margin_end, 100)
           last_item == loc.item_ix = Len(details.items)
       IN  /\ products_df' = Append(products_df,
                  ProductRow(prod_id, details.items[loc.item_ix],
                             details.category, details.perishable,
                             cost, margin_pct))
           /\ loc' = [loc EXCEPT
                  !.cat_ix = IF last_item THEN @ + 1 ELSE @,
                  !.item_ix = IF last_item THEN 1 ELSE @ + 1,
                  !.cost_end = IF loc.alternate THEN OtherEnd(@) ELSE @,
                  !.margin_end = IF loc.alternate THEN OtherEnd(@) ELSE @]
           /\ pc' = IF last_item /\ loc.cat_ix = Len(product_categories)
                    THEN "products_done" ELSE "products"
    /\ prod_id' = prod_id + 1
    /\ UNCHANGED <<i, tier_ix, store_id, stores_data, customers_data,
                   transactions_data, inventory_data, inv_id, inv_pos>>
    /\ UNCHANGED pipeVars

InitProducts ==
    /\ pc = "products"
    /\ i = 0
    /\ tier_ix = Len(TierSpecs) + 1
    /\ store_id = Len(stores_df) + 1
    /\ stores_data = stores_df
    /\ customers_data = <<>>
    /\ products_df = <<>>
    /\ transactions_data = <<>>
    /\ \E pattern \in SamplerPatterns :
          loc = [set |-> FALSE, cat_ix |-> 1, item_ix |-> 1,
                 cost_end |-> pattern.cost_end,
                 margin_end |-> pattern.margin_end,
                 alternate |-> pattern.alternate]
    /\ IdleInventory
    /\ IdlePipeline

NextProducts == GenProduct

SpecProducts == InitProducts /\ [][NextProducts]_vars

CategoryProducts(category) ==
    SelectSeq(products_df, LAMBDA p : p.category = category)

\* C11: product generation produces exactly one product per item name of
\* each of the seven categories, 39 products in all, and the stored
\* list_price of every product is strictly greater than its stored unit_cost
\* for the costs and margin percentages of the category's ranges.
C11_ProductCountAndPrice ==
    /\ \A n \in 1..Len(products_df) :
          products_df[n].list_price > products_df[n].unit_cost
    /\ pc = "products_done" =>
          /\ Len(products_df) = 39
          /\ Len(products_df) = 6 + 6 + 6 + 6 + 5 + 5 + 5
          /\ \A c \in 1..Len(product_categories) :
                LET details == product_categories[c]
                    rows == CategoryProducts(details.category)
                IN  /\ Len(rows) = Len(details.items)
                    /\ \A k \in 1..Len(rows) :
                          rows[k].product_name = details.items[k]
          /\ \A a, b \in 1..Len(products_df) :
                a # b => products_df[a].product_id # products_df[b].product_id

\* the whole catalogue generated with every sample at the low end of its
\* range: the cheapest Packaged Foods item at the smallest margin
C11_Witness ==
    /\ pc = "products_done"
    /\ Len(products_df) = 39
    /\ products_df[13].category = "Packaged Foods"
    /\ products_df[13].unit_cost = 2500
    /\ products_df[13].list_price = 2941
    /\ products_df[39].product_id = "PRD0039"

-----------------------------------------------------------------------------
(* Transaction generation, lines 209-318 *)

\* values np.random.lognormal may return, in tenths
QtySamples == {4, 27, 113}

DiscountChoices(tier) ==
    IF tier = "Metro" THEN {0, 5, 10, 15} ELSE {0, 5, 10, 15, 20}

\* values np.random.uniform may return for delivery_distance, in metres
DistanceSamples(tier) ==
    IF tier = "Metro" THEN {10000, 10001}
    ELSE IF tier = "Tier 2" THEN {3007}
    ELSE {59999}

\* values np.random.uniform(0, cap) may return for the spoilage share, in
\* percent: cap 0.08 in Tier 2, 0.15 in Tier 3
SpoilageSamples(tier) ==
    IF tier = "Tier 2" THEN {0, 7}
    ELSE IF tier = "Tier 3" THEN {0, 14}
    ELSE {0}

IsEF(product) == product.category \in {"Electronics", "Fashion"}

\* lines 226-241: the rows product sampling may pick from, per branch
ProductPools(tier) ==
    IF tier = "Metro" THEN {SeqRange(products_df)}
    ELSE {{p \in SeqRange(products_df) : IsEF(p)},
          {p \in SeqRange(products_df) : ~IsEF(p)}}

\* line 263
ClampQty_noceiling(qty) == Max(1, qty)

ClampQty(qty) == Max(1, Min(qty, 10))

\* lines 270-276, distance in metres, result in 1e-4 rupee
LogisticsCost_flatrate(tier, delivery_distance) ==
    delivery_distance * 25 + 150000

LogisticsCost(tier, delivery_distance) ==
    IF tier = "Metro" THEN delivery_distance * 25 + 150000
    ELSE IF tier = "Tier 2" THEN delivery_distance * 35 + 250000
    ELSE delivery_distance * 45 + 350000

\* lines 278-284, share in percent
SpoilageCost_tenfold(is_perishable, tier, product_cost, share) ==
    IF is_perishable /\ tier \in {"Tier 2", "Tier 3"}
    THEN (product_cost \div 10) * share
    ELSE 0

SpoilageCost_anytier(is_perishable, tier, product_cost, share) ==
    IF is_perishable
    THEN (product_cost \div 100) * (IF tier = "Metro" THEN 5 ELSE share)
    ELSE 0

SpoilageCost(is_perishable, tier, product_cost, share) ==
    IF is_perishable /\ tier \in {"Tier 2", "Tier 3"}
    THEN (product_cost \div 100) * share
    ELSE 0

\* line 286
TotalCost_nospoilage(product_cost, logistics_cost, spoilage_cost) ==
    product_cost + logistics_cost

TotalCost(product_cost, logistics_cost, spoilage_cost) ==
    product_cost + logistics_cost + spoilage_cost

\* line 287
Margin_gross(revenue, product_cost, total_cost) == revenue - product_cost

Margin(revenue, product_cost, total_cost) == revenue - total_cost

\* lines 263-288: the local names after the pricing and cost statements
Financials(list_price, unit_cost, is_perishable, tier, qty_sample, discount, delivery_distance, share) ==
    LET qty == ClampQty(IntTrunc(qty_sample))
        unit_price == list_price * (100 - discount)
        revenue == unit_price * qty
        product_cost == unit_cost * 100 * qty
        logistics_cost == LogisticsCost(tier, delivery_distance)
        spoilage_cost == SpoilageCost(is_perishable, tier, product_cost, share)
        total_cost == TotalCost(product_cost, logistics_cost, spoilage_cost)
        margin == Margin(revenue, product_cost, total_cost)
    IN  [set |-> TRUE,
         tier |-> tier,
         list_price |-> list_price,
         unit_cost |-> unit_cost,
         is_perishable |-> is_perishable,
         qty |-> qty,
         discount |-> discount,
         delivery_distance |-> delivery_distance,
         share |-> share,
         unit_price |-> unit_price,
         revenue |-> revenue,
         product_cost |-> product_cost,
         logistics_cost |-> logistics_cost,
         spoilage_cost |-> spoilage_cost,
         total_cost |-> total_cost,
         margin |-> margin,
         margin_pct |-> IF revenue > 0 THEN RoundPct(margin, revenue) ELSE 0]

\* days from 2023-01-01 to the cutoff datetime(2024, 9, 30)
CutoffDay == 638

\* line 292: the values np.random.randint(0, min(days_since_registration, 365))
\* may return
DaysBackSamples_inclusive(registration_date) ==
    {0, Min(CutoffDay - registration_date, 365)}

DaysBackSamples(registration_date) ==
    LET days_since_registration == CutoffDay - registration_date
    IN  {0, Min(days_since_registration, 365) - 1}

\* lines 295-316: the stored row; money columns in paise, margin_pct in
\* 1e-2 %, transaction_date in days after 2023-01-01; the sampled columns
\* delivery_time_hours and payment_method are not kept
TxnRow(n, customer, store, product, f, days_back) ==
    [transaction_id |-> TxnIdStr(n),
     transaction_date |-> CutoffDay - days_back,
     customer_id |-> customer.customer_id,
     product_id |-> product.product_id,
     store_id |-> store.store_id,
     region_tier |-> f.tier,
     quantity |-> f.qty,
     unit_price |-> Round2(f.unit_price),
     revenue |-> Round2(f.revenue),
     product_cost |-> Round2(f.product_cost),
     logistics_cost |-> Round2(f.logistics_cost),
     spoilage_cost |-> Round2(f.spoilage_cost),
     total_cost |-> Round2(f.total_cost),
     margin |-> Round2(f.margin),
     margin_pct |-> f.margin_pct,
     discount_pct |-> f.discount,
     delivery_distance_km |-> RoundDiv(f.delivery_distance, 10),
     is_perishable |-> product.is_perishable]

\* line 222: stores_df[stores_df['store_id'] == store_id].iloc[0]
StoreById(sid) ==
    LET k == CHOOSE k \in 1..Len(stores_data) : stores_data[k].store_id = sid
    IN  stores_data[k]

\* lines 219-224: the stores the serving store may be
StoreChoices_anytier(customer) ==
    {StoreById(customer.primary_store_id)}
        \cup {stores_data[k] : k \in SampleIdx(Len(stores_data))}

StoreChoices(customer) ==
    LET tier_stores == TierStores(stores_data, customer.region_tier)
    IN  {StoreById(customer.primary_store_id)}
            \cup {tier_stores[k] : k \in SampleIdx(Len(tier_stores))}

GenTransaction ==
    /\ pc = "transactions"
    /\ i <= MaxTxns
    /\ \E c \in 1..Len(customers_data) :
         LET customer == customers_data[c]
             tier == customer.region_tier
         IN  \E store \in StoreChoices(customer), pool \in ProductPools(tier) :
             \E product \in pool, qty_sample \in QtySamples,
                discount \in DiscountChoices(tier),
                delivery_distance \in DistanceSamples(tier),
                days_back \in DaysBackSamples(customer.registration_date) :
             \E share \in (IF product.is_perishable THEN SpoilageSamples(tier)
                                                     ELSE {0}) :
                  LET f == Financials(product.list_price, product.unit_cost,
                                      product.is_perishable, tier, qty_sample,
                                      discount, delivery_distance, share)
                  IN  /\ loc' = f
                      /\ transactions_data' = Append(transactions_data,
                            TxnRow(i, customer, store, product, f, days_back))
    /\ i' = i + 1
    /\ pc' = IF i < MaxTxns THEN "transactions" ELSE "transactions_done"
    /\ UNCHANGED invVars
    /\ UNCHANGED <<tier_ix, store_id, stores_data, customers_data, products_df>>
    /\ UNCHANGED pipeVars

\* customers_df rows the transaction sampler is restricted to here: one
\* customer per tier
CustomerRows ==
    <<CustomerRow(1, "Metro",  TierStores(stores_df, "Metro")[1],  325, "50-75K", 0),
      CustomerRow(2, "Tier 2", TierStores(stores_df, "Tier 2")[1], 325, "25-50K", 449),
      CustomerRow(3, "Tier 3", TierStores(stores_df, "Tier 3")[35], 325, "10-15K", 200)>>

InitTxn ==
    /\ pc = "transactions"
    /\ i = 1
    /\ tier_ix = Len(TierSpecs) + 1
    /\ store_id = Len(stores_df) + 1
    /\ stores_data = stores_df
    /\ customers_data = CustomerRows
    /\ products_df = ProductRows
    /\ transactions_data = <<>>
    /\ loc = NoLoc
    /\ IdleInventory
    /\ IdlePipeline

NextTxn == GenTransaction

SpecTxn == InitTxn /\ [][NextTxn]_vars


Abs(x) == IF x < 0 THEN -x ELSE x

LastTxn == transactions_data[Len(transactions_data)]

\* C1 as stated: in every stored row, margin equals revenue minus total_cost
\* taken from the same stored (rounded) row.
C1_StoredMarginIdentity ==
    \A t \in 1..Len(transactions_data) :
        transactions_data[t].margin
            = transactions_data[t].revenue - transactions_data[t].total_cost

\* C1 amended: the stored margin is round(revenue - total_cost, 2) of the
\* unrounded revenue and total_cost of the iteration, and it is within 0.01
\* of stored revenue minus stored total_cost.
C1_MarginOfUnrounded ==
    /\ loc.set => LastTxn.margin = RoundDiv(loc.revenue - loc.total_cost, 100)
    /\ \A t \in 1..Len(transactions_data) :
          Abs(transactions_data[t].margin
                - (transactions_data[t].revenue - transactions_data[t].total_cost)) <= 1

\* a row where the two roundings disagree by one paisa
C1_Witness ==
    /\ loc.set
    /\ LastTxn.margin = RoundDiv(loc.revenue - loc.total_cost, 100)
    /\ LastTxn.margin # LastTxn.revenue - LastTxn.total_cost

\* C2 as stated: in every stored row, total_cost equals the sum of the stored
\* product_cost, logistics_cost and spoilage_cost.
C2_StoredCostIdentity ==
    \A t \in 1..Len(transactions_data) :
        transactions_data[t].total_cost
            = transactions_data[t].product_cost
                + transactions_data[t].logistics_cost
                + transactions_data[t].spoilage_cost

\* C2 amended: the stored total_cost is round(product_cost + logistics_cost +
\* spoilage_cost, 2) of the unrounded costs of the iteration; it is within
\* 0.01 of the sum of the three stored costs, and equal to it whenever
\* spoilage_cost is 0.
C2_CostOfUnrounded ==
    /\ loc.set => LastTxn.total_cost
           = RoundDiv(loc.product_cost + loc.logistics_cost + loc.spoilage_cost, 100)
    /\ \A t \in 1..Len(transactions_data) :
          LET row == transactions_data[t]
              sum == row.product_cost + row.logistics_cost + row.spoilage_cost
          IN  /\ Abs(row.total_cost - sum) <= 1
              /\ row.spoilage_cost = 0 => row.total_cost = sum

\* a perishable Tier 2 row where the sum of the rounded costs misses by one paisa
C2_Witness ==
    /\ loc.set
    /\ loc.spoilage_cost > 0
    /\ LastTxn.total_cost
           = RoundDiv(loc.product_cost + loc.logistics_cost + loc.spoilage_cost, 100)
    /\ LastTxn.total_cost
           # LastTxn.product_cost + LastTxn.logistics_cost + LastTxn.spoilage_cost

\* C7: spoilage_cost is 0 whenever the tier is Metro or the product is not
\* perishable; for a perishable product it is at least 0 and at most 8% of
\* product_cost in Tier 2 and at most 15% of product_cost in Tier 3.  The
\* bounds are those of the computed spoilage_cost; the stored column is its
\* rounding, so it is 0 in the same rows and never negative.
C7_SpoilageBounds ==
    /\ loc.set =>
          /\ loc.spoilage_cost >= 0
          /\ (loc.tier = "Metro" \/ ~loc.is_perishable) => loc.spoilage_cost = 0
          /\ loc.tier = "Tier 2" => loc.spoilage_cost * 100 <= 8 * loc.product_cost
          /\ loc.tier = "Tier 3" => loc.spoilage_cost * 100 <= 15 * loc.product_cost
    /\ \A t \in 1..Len(transactions_data) :
          LET row == transactions_data[t]
          IN  /\ row.spoilage_cost >= 0
              /\ (row.region_tier = "Metro" \/ ~row.is_perishable)
                     => row.spoilage_cost = 0

\* a perishable Tier 3 sale that was charged spoilage
C7_Witness ==
    /\ loc.set
    /\ loc.tier = "Tier 3"
    /\ loc.is_perishable
    /\ loc.spoilage_cost > 0
    /\ LastTxn.spoilage_cost > 0

\* C8: whatever the samplers return, every stored quantity is an integer in
\* 1..10 and every stored discount_pct is one of 0, 5, 10, 15, 20.
C8_QtyAndDiscount ==
    \A t \in 1..Len(transactions_data) :
        /\ transactions_data[t].quantity \in 1..10
        /\ transactions_data[t].discount_pct \in {0, 5, 10, 15, 20}

\* a log-normal sample above 10 was clamped, with the largest discount
C8_Witness ==
    /\ Len(transactions_data) >= 1
    /\ LastTxn.quantity = 10
    /\ LastTxn.discount_pct = 20

CustomerOf(row) ==
    CHOOSE c \in SeqRange(customers_data) : c.customer_id = row.customer_id

\* C16: for every transaction, in the home-store branch and in the
\* random-store branch, the store recorded on the transaction exists in the
\* store table and its region_tier equals the transaction's region_tier,
\* which is the tier of the transaction's customer; every customer's
\* primary_store_id names a store of the customer's own tier.  (store_id
\* values are distinct, so a store with the recorded id and the transaction's
\* tier is the store; the tables read by the loop are checked before its
\* first iteration, i = 1, as the loop does not write them.)
C16_StoreInCustomerTier ==
    /\ i = 1 =>
          \A c \in SeqRange(customers_data) :
              \E k \in 1..Len(stores_data) :
                  /\ stores_data[k].store_id = c.primary_store_id
                  /\ stores_data[k].region_tier = c.region_tier
    /\ \A t \in 1..Len(transactions_data) :
          LET row == transactions_data[t]
          IN  /\ \E k \in 1..Len(stores_data) :
                    /\ stores_data[k].store_id = row.store_id
                    /\ stores_data[k].region_tier = row.region_tier
              /\ row.region_tier = CustomerOf(row).region_tier

\* a Tier 3 sale served by a store other than the customer's home store
C16_Witness ==
    /\ Len(transactions_data) >= 1
    /\ LastTxn.region_tier = "Tier 3"
    /\ LastTxn.store_id # CustomerOf(LastTxn).primary_store_id
    /\ StoreById(LastTxn.store_id).region_tier = "Tier 3"

\* the registration offsets the customer generator can produce (line 203)
RegDays == 0..449

\* C17: every transaction date is not later than the cutoff 2024-09-30, less
\* than 365 days before it, and strictly later than the customer's
\* registration date; for every registration date the customer generator can
\* produce the range of days_back is non-empty (this part does not depend on
\* the loop and is checked before its first iteration, i = 1).
C17_TransactionDates ==
    /\ \A t \in 1..Len(transactions_data) :
          LET row == transactions_data[t]
          IN  /\ row.transaction_date <= CutoffDay
              /\ CutoffDay - row.transaction_date < 365
              /\ row.transaction_date > CustomerOf(row).registration_date
    /\ i = 1 =>
          /\ \A c \in SeqRange(customers_data) : c.registration_date \in RegDays
          /\ \A reg \in RegDays :
                /\ Min(CutoffDay - reg, 365) >= 1
                /\ DaysBackSamples(reg)
                       \subseteq 0..(Min(CutoffDay - reg, 365) - 1)

\* the customer registered last is sold to on the earliest day possible, one
\* day after registration
C17_Witness ==
    /\ Len(transactions_data) >= 1
    /\ CustomerOf(LastTxn).registration_date = 449
    /\ LastTxn.transaction_date = 450

-----------------------------------------------------------------------------
(* Inventory generation, lines 321-359 *)

\* rows of stores_df the inventory loop is restricted to here, in table
\* order: a Metro store, a Tier 2 store and Tier 3 stores
InvStoreRows == <<1, 41, 86, 120, 119, 118, 117, 116>>

InvStores == [k \in 1..MaxInvStores |-> stores_df[InvStoreRows[k]]]

\* values np.random.randint(lo, hi) may return for stock_level
StockSamples(tier) ==
    IF tier = "Metro" THEN {50, 299}
    ELSE IF tier = "Tier 2" THEN {20, 149}
    ELSE {10, 79}

\* lines 329-331: the pairs the 60% skip is drawn for
MaySkip(store, product) == store.region_tier = "Tier 3" /\ IsEF(product)

\* line 357, reached only when the pair was not skipped by `continue`
NextInvId_always(id, skipped) == id + 1

NextInvId(id, skipped) == IF skipped THEN id ELSE id + 1

\* lines 333-356: the appended row; avg_daily_sales in 1e-2; the sampled
\* columns stockout_days_last_month and last_restock_date are not kept
InventoryRow(n, store, product, stock_level) ==
    [inventory_id |-> InvIdStr(n),
     store_id |-> store.store_id,
     product_id |-> product.product_id,
     current_stock |-> stock_level,
     reorder_point |->
         IF store.region_tier = "Metro" THEN (stock_level * 30) \div 100
         ELSE IF store.region_tier = "Tier 2" THEN (stock_level * 25) \div 100
         ELSE (stock_level * 20) \div 100,
     avg_daily_sales |-> RoundDiv(stock_level * 100, 30)]

\* one iteration of the inner loop and the loop headers that follow it
GenInventory ==
    /\ pc = "inventory"
    /\ LET store == stores_data[inv_pos.store]
           product == products_df[inv_pos.product]
           last_product == inv_pos.product = Len(products_df)
       IN  /\ \E skipped \in (IF MaySkip(store, product) THEN BOOLEAN
                                                        ELSE {FALSE}),
                 stock_level \in StockSamples(store.region_tier) :
                 /\ inventory_data' =
                        IF skipped THEN inventory_data
                        ELSE Append(inventory_data,
                                 InventoryRow(inv_id, store, product, stock_level))
                 /\ inv_id' = NextInvId(inv_id, skipped)
           /\ inv_pos' = IF last_product
                         THEN [store |-> inv_pos.store + 1, product |-> 1]
                         ELSE [inv_pos EXCEPT !.product = @ + 1]
           /\ pc' = IF last_product /\ inv_pos.store = Len(stores_data)
                    THEN "inventory_done" ELSE "inventory"
    /\ UNCHANGED <<i, tier_ix, store_id, stores_data, customers_data,
                   products_df, transactions_data, loc, prod_id>>
    /\ UNCHANGED pipeVars

InitInventory ==
    /\ pc = "inventory"
    /\ i = 0
    /\ tier_ix = Len(TierSpecs) + 1
    /\ store_id = Len(stores_df) + 1
    /\ stores_data = InvStores
    /\ customers_data = <<>>
    /\ products_df = ProductRows
    /\ transactions_data = <<>>
    /\ loc = NoLoc
    /\ prod_id = Len(ProductRows) + 1
    /\ inventory_data = <<>>
    /\ inv_id = 1
    /\ inv_pos = [store |-> 1, product |-> 1]
    /\ IdlePipeline

NextInventory == GenInventory

SpecInventory == InitInventory /\ [][NextInventory]_vars

PairRecords(store, product) ==
    {k \in 1..Len(inventory_data) :
        /\ inventory_data[k].store_id = store.store_id
        /\ inventory_data[k].product_id = product.product_id}

\* C12: after inventory generation every (store, product) pair has at most
\* one inventory record; a pair whose store is not Tier 3 or whose product is
\* not Electronics or Fashion has exactly one; only (Tier 3, Electronics or
\* Fashion) pairs can be absent; the ids run consecutively from INV000001
\* with no gap left by a skipped pair.
C12_InventoryPairsAndIds ==
    /\ \A k \in 1..Len(inventory_data) :
          inventory_data[k].inventory_id = InvIdStr(k)
    /\ inv_id = Len(inventory_data) + 1
    /\ \A store \in SeqRange(stores_data), product \in SeqRange(products_df) :
          Cardinality(PairRecords(store, product)) <= 1
    /\ pc = "inventory_done" =>
          \A store \in SeqRange(stores_data), product \in SeqRange(products_df) :
              /\ ~MaySkip(store, product)
                     => Cardinality(PairRecords(store, product)) = 1
              /\ PairRecords(store, product) = {}
                     => (store.region_tier = "Tier 3" /\ IsEF(product))

\* the Tier 3 store's Electronics pair was skipped and its Fashion pair kept:
\* the record after the skipped pair takes the next id
C12_Witness ==
    /\ pc = "inventory_done"
    /\ Len(inventory_data) = Len(stores_data) * Len(products_df) - 1
    /\ PairRecords(stores_data[3], products_df[3]) = {}
    /\ PairRecords(stores_data[3], products_df[4]) = {11}
    /\ inventory_data[11].inventory_id = "INV000011"

-----------------------------------------------------------------------------
(* The financial derivation as a function of its sampled inputs *)

PriceSamples == {10000, 10009}
CostSamples == {4000, 8508}

Derive ==
    /\ pc = "derive"
    /\ loc' = Financials(loc.list_price, loc.unit_cost, loc.is_perishable,
                         loc.tier, loc.qty_sample, loc.discount,
                         loc.delivery_distance, loc.share)
    /\ pc' = "derived"
    /\ UNCHANGED invVars
    /\ UNCHANGED <<i, tier_ix, store_id, stores_data, customers_data,
                   products_df, transactions_data>>
    /\ UNCHANGED pipeVars

InitFinancials ==
    /\ pc = "derive"
    /\ i = 1
    /\ tier_ix = Len(TierSpecs) + 1
    /\ store_id = Len(stores_df) + 1
    /\ stores_data = <<>>
    /\ customers_data = <<>>
    /\ products_df = <<>>
    /\ transactions_data = <<>>
    /\ \E list_price \in PriceSamples, unit_cost \in CostSamples,
          is_perishable \in BOOLEAN, tier \in Tiers, qty_sample \in QtySamples :
       \E discount \in DiscountChoices(tier),
          delivery_distance \in {10000} \cup DistanceSamples(tier),
          share \in (IF is_perishable THEN SpoilageSamples(tier) ELSE {0}) :
            loc = [set |-> FALSE, list_price |-> list_price,
                   unit_cost |-> unit_cost, is_perishable |-> is_perishable,
                   tier |-> tier, qty_sample |-> qty_sample,
                   discount |-> discount,
                   delivery_distance |-> delivery_distance, share |-> share]
    /\ IdleInventory
    /\ IdlePipeline

NextFinancials == Derive

SpecFinancials == InitFinancials /\ [][NextFinancials]_vars

\* C6: the financial fields follow from the sampled inputs in this order:
\* unit_price = list_price*(1 - discount/100); revenue = unit_price*qty;
\* product_cost = unit_cost*qty; logistics_cost = distance*rate + fee with
\* (rate, fee) = (2.5, 15) Metro, (3.5, 25) Tier 2, (4.5, 35) Tier 3;
\* total_cost = product_cost + logistics_cost + spoilage_cost;
\* margin = revenue - total_cost; margin_pct = margin/revenue*100 rounded to
\* 2 decimals.  list_price=100, discount=10, qty=2, unit_cost=40, Metro,
\* distance=10, non-perishable gives 90, 180, 80, 40, 0, 120, 60 and 33.33.
C6_Derivation ==
    pc = "derived" =>
        /\ loc.unit_price = loc.list_price * (100 - loc.discount)
        /\ loc.revenue = loc.unit_price * loc.qty
        /\ loc.product_cost = loc.unit_cost * 100 * loc.qty
        /\ loc.tier = "Metro" =>
              loc.logistics_cost = 25 * loc.delivery_distance + 15 * 10000
        /\ loc.tier = "Tier 2" =>
              loc.logistics_cost = 35 * loc.delivery_distance + 25 * 10000
        /\ loc.tier = "Tier 3" =>
              loc.logistics_cost = 45 * loc.delivery_distance + 35 * 10000
        /\ loc.total_cost
              = loc.product_cost + loc.logistics_cost + loc.spoilage_cost
        /\ loc.margin = loc.revenue - loc.total_cost
        /\ loc.revenue > 0
        /\ loc.margin_pct
              = 100 * ((loc.margin * 100) \div loc.revenue)
                  + RoundDiv(((loc.margin * 100) % loc.revenue) * 100, loc.revenue)
        /\ (/\ loc.list_price = 10000 /\ loc.discount = 10 /\ loc.qty = 2
            /\ loc.unit_cost = 4000 /\ loc.tier = "Metro"
            /\ loc.delivery_distance = 10000 /\ ~loc.is_perishable)
           => /\ loc.unit_price = 900000
              /\ loc.revenue = 1800000
              /\ loc.product_cost = 800000
              /\ loc.logistics_cost = 400000
              /\ loc.spoilage_cost = 0
              /\ loc.total_cost = 1200000
              /\ loc.margin = 600000
              /\ loc.margin_pct = 3333

\* the scenario of the claim has been derived
C6_Witness ==
    /\ pc = "derived"
    /\ loc.list_price = 10000 /\ loc.discount = 10 /\ loc.qty = 2
    /\ loc.unit_cost = 4000 /\ loc.tier = "Metro"
    /\ loc.delivery_distance = 10000 /\ ~loc.is_perishable
    /\ loc.margin_pct = 3333


-----------------------------------------------------------------------------
(* Cluster naming, lines 846-858 *)

optimal_k == 4

Clusters == 0..(optimal_k - 1)

\* Series.idxmax / idxmin over the cluster index: the first label holding
\* the largest / smallest value
IdxMax(col) ==
    CHOOSE c \in Clusters :
        /\ \A d \in Clusters : col[d] <= col[c]
        /\ \A d \in Clusters : d < c => col[d] < col[c]

IdxMin(col) ==
    CHOOSE c \in Clusters :
        /\ \A d \in Clusters : col[d] >= col[c]
        /\ \A d \in Clusters : d < c => col[d] > col[c]

\* a dict display {k1: v1, k2: v2, ...}: entries are stored left to right,
\* a repeated key keeps the value stored last
RECURSIVE DictLiteral(_)
DictLiteral(pairs) ==
    IF pairs = <<>> THEN <<>>
    ELSE LET n == Len(pairs)
         IN  (pairs[n][1] :> pairs[n][2]) @@ DictLiteral(SubSeq(pairs, 1, n - 1))

\* cluster_names after lines 847-856
ClusterNames(profiles) ==
    LET avg_revenue == [c \in Clusters |-> profiles[c].avg_revenue]
        avg_purchases == [c \in Clusters |-> profiles[c].avg_purchases]
        named == DictLiteral(<< <<IdxMax(avg_revenue), "High Value">>,
                                <<IdxMax(avg_purchases), "Frequent Buyers">>,
                                <<IdxMin(avg_revenue), "Low Engagement">> >>)
        remaining == {c \in Clusters : c \notin DOMAIN named}
    IN  IF remaining # {}
        THEN ((CHOOSE c \in remaining : \A d \in remaining : c <= d) :> "Moderate")
                 @@ named
        ELSE named

\* the cluster profile tables KMeans and the group-by may produce
ProfileVals == 1..MaxProfileVal

Profiles ==
    [Clusters -> [avg_revenue : ProfileVals, avg_purchases : ProfileVals]]

NameClusters ==
    /\ pc = "naming"
    /\ cluster_names' = ClusterNames(cluster_profiles)
    /\ pc' = "named"
    /\ UNCHANGED invVars
    /\ UNCHANGED behavior_summary
    /\ UNCHANGED insights
    /\ UNCHANGED <<i, tier_ix, store_id, stores_data, customers_data,
                   products_df, transactions_data, loc, regional_perf,
                   store_perf, le_classes, trained, warned, images,
                   cluster_profiles, listed_files, error>>

InitNaming ==
    /\ pc = "naming"
    /\ i = 1
    /\ tier_ix = Len(TierSpecs) + 1
    /\ store_id = Len(stores_df) + 1
    /\ stores_data = <<>>
    /\ customers_data = <<>>
    /\ products_df = <<>>
    /\ transactions_data = <<>>
    /\ loc = NoLoc
    /\ regional_perf = <<>>
    /\ store_perf = <<>>
    /\ le_classes = {}
    /\ trained = FALSE
    /\ warned = FALSE
    /\ images = {}
    /\ cluster_profiles \in Profiles
    /\ cluster_names = <<>>
    /\ listed_files = {}
    /\ error = "none"
    /\ behavior_summary = <<>>
    /\ insights = <<>>
    /\ IdleInventory

NextNaming == NameClusters

SpecNaming == InitNaming /\ [][NextNaming]_vars

AvgRevenue == [c \in Clusters |-> cluster_profiles[c].avg_revenue]
AvgPurchases == [c \in Clusters |-> cluster_profiles[c].avg_purchases]

\* C3 as stated: with k = 4, when the cluster of maximum average revenue is
\* also the cluster of maximum average purchase count, that cluster is
\* labelled "High Value".
C3_HighValueWins ==
    (pc = "named" /\ IdxMax(AvgRevenue) = IdxMax(AvgPurchases))
        => cluster_names[IdxMax(AvgRevenue)] = "High Value"

\* what the dict display does in that case: the later entry replaces the
\* earlier one, and the name "High Value" is given to no cluster
C3_LaterEntryWins ==
    (pc = "named" /\ IdxMax(AvgRevenue) = IdxMax(AvgPurchases))
        => /\ cluster_names[IdxMax(AvgRevenue)]
                 = (IF IdxMin(AvgRevenue) = IdxMax(AvgRevenue)
                    THEN "Low Engagement" ELSE "Frequent Buyers")
           /\ \A c \in DOMAIN cluster_names : cluster_names[c] # "High Value"


\* the clusters selected by one of the three rules of lines 849-851
RuleClusters ==
    {IdxMax(AvgRevenue), IdxMax(AvgPurchases), IdxMin(AvgRevenue)}

\* C15 as stated: with k = 4, after naming every cluster 0..3 has exactly one
\* name, each of 'High Value', 'Frequent Buyers', 'Low Engagement' and
\* 'Moderate' names exactly one cluster, the one cluster selected by none of
\* the three rules is 'Moderate', and no customer is left without a
\* cluster_name, also where two rules select the same cluster.
C15_EveryClusterNamed ==
    pc = "named" =>
        /\ DOMAIN cluster_names = Clusters
        /\ \A name \in {"High Value", "Frequent Buyers", "Low Engagement",
                        "Moderate"} :
              Cardinality({c \in DOMAIN cluster_names :
                              cluster_names[c] = name}) = 1
        /\ Cardinality(Clusters \ RuleClusters) = 1
        /\ \A c \in Clusters \ RuleClusters : cluster_names[c] = "Moderate"

\* what holds: the stated naming where the three rules select three
\* clusters; otherwise at least one cluster is left without a name
NamedWhenRulesDistinct ==
    pc = "named" =>
        IF Cardinality(RuleClusters) = 3
        THEN /\ DOMAIN cluster_names = Clusters
             /\ cluster_names[IdxMax(AvgRevenue)] = "High Value"
             /\ cluster_names[IdxMax(AvgPurchases)] = "Frequent Buyers"
             /\ cluster_names[IdxMin(AvgRevenue)] = "Low Engagement"
             /\ \A c \in Clusters \ RuleClusters : cluster_names[c] = "Moderate"
        ELSE /\ DOMAIN cluster_names # Clusters
             /\ Cardinality(DOMAIN cluster_names) = Cardinality(RuleClusters) + 1

-----------------------------------------------------------------------------
(* The analysis stages, Sections 2-8 (lines 372-1018), run on a generated   *)
(* transaction table                                                         *)

TierRows_all(table, tier) == table

TierRows(table, tier) == SelectSeq(table, LAMBDA r : r.region_tier = tier)

StoreRows(table, sid) == SelectSeq(table, LAMBDA r : r.store_id = sid)

\* lines 381-396: transactions_df.groupby('region_tier').agg(...), one row per
\* tier that has a transaction; sums in paise, 'Margin %' in 1e-2 %
RegionalPerf(table) ==
    [tier \in {table[k].region_tier : k \in 1..Len(table)} |->
        LET rows == TierRows(table, tier)
            total_revenue == SumSeq([k \in 1..Len(rows) |-> rows[k].revenue])
            total_margin == SumSeq([k \in 1..Len(rows) |-> rows[k].margin])
            total_spoilage == SumSeq([k \in 1..Len(rows) |-> rows[k].spoilage_cost])
            customers == {rows[k].customer_id : k \in 1..Len(rows)}
        IN  [Transactions |-> Len(rows),
             TotalRevenue |-> total_revenue,
             TotalMargin |-> total_margin,
             UniqueCustomers |-> Cardinality(customers),
             AvgSpoilageCost |-> RoundDiv(total_spoilage, Len(rows)),
             MarginPct |-> RoundPct(total_margin, total_revenue),
             RevenuePerCustomer |->
                 RoundDiv(total_revenue, Cardinality(customers))]]

\* line 673: the risk label of a store from its rows, mean margin_pct < 10
HighRisk(rows) ==
    IF SumSeq([k \in 1..Len(rows) |-> rows[k].margin_pct]) < 1000 * Len(rows)
    THEN 1 ELSE 0

\* lines 658-673: transactions_df.groupby('store_id') merged with stores_df
StorePerf_riskonly(table) ==
    [sid \in {table[k].store_id : k \in
                 {j \in 1..Len(table) :
                     HighRisk(StoreRows(table, table[j].store_id)) = 1}} |->
        [region_tier |-> StoreById(sid).region_tier,
         transaction_id |-> Len(StoreRows(table, sid)),
         high_risk |-> HighRisk(StoreRows(table, sid))]]

StorePerf(table) ==
    [sid \in {table[k].store_id : k \in 1..Len(table)} |->
        [region_tier |-> StoreById(sid).region_tier,
         transaction_id |-> Len(StoreRows(table, sid)),
         high_risk |-> HighRisk(StoreRows(table, sid))]]

\* lines 414-419 and 734-737: the tiers in cust_features, one row per
\* (customer_id, region_tier) of the transactions that joins customers_df
CustFeatureTiers(table) ==
    {table[k].region_tier : k \in
        {j \in 1..Len(table) :
            \E c \in 1..Len(customers_data) :
                customers_data[c].customer_id = table[j].customer_id}}

\* lines 414-419: transactions_df.groupby(['customer_id', 'region_tier']),
\* one row per pair that has a transaction, with its purchase_count
customer_behavior(table) ==
    {[customer_id |-> table[k].customer_id,
      region_tier |-> table[k].region_tier,
      purchase_count |->
          Cardinality({j \in 1..Len(table) :
                          /\ table[j].customer_id = table[k].customer_id
                          /\ table[j].region_tier = table[k].region_tier})] :
        k \in 1..Len(table)}

\* line 431: (repeat_customers / total_customers) * 100 rounded, for one tier.
\* repeat_customers (line 429) is the size of the groups of the filtered
\* table, so it has no entry for a tier without a customer of 3 purchases;
\* the division aligns the two Series on their labels and gives NaN there
\* a float cell of a table: NaN, or a number
NaN == [isnan |-> TRUE, value |-> 0]

Num(x) == [isnan |-> FALSE, value |-> x]

RepeatRatePct(repeat, total) ==
    IF repeat = 0 THEN NaN ELSE Num(RoundPct(repeat, total))

\* lines 421-431, the columns 'Total Customers' and 'Repeat Rate %' (1e-2 %)
BehaviorSummary(table) ==
    [tier \in {table[k].region_tier : k \in 1..Len(table)} |->
        LET total_customers ==
                {cb \in customer_behavior(table) : cb.region_tier = tier}
            repeat_customers ==
                {cb \in total_customers : cb.purchase_count >= 3}
        IN  [TotalCustomers |-> Cardinality(total_customers),
             RepeatCustomers |-> Cardinality(repeat_customers),
             RepeatRatePct |-> RepeatRatePct(Cardinality(repeat_customers),
                                             Cardinality(total_customers))]]

VizFiles == {"images/regional_performance_dashboard.png",
             "images/category_analysis.png",
             "images/logistics_supply_chain.png",
             "images/customer_insights.png"}

\* lines 1001-1008: the files the summary prints as generated
SummaryFiles == VizFiles \cup {"images/feature_importance_margin_risk.png",
                               "images/clv_prediction.png",
                               "images/clustering_optimization.png",
                               "images/customer_segmentation.png"}

\* inventory_df rows the stages are run on here: the first Metro store's
\* records of the four products
InventoryRows ==
    [n \in 1..Len(ProductRows) |->
        InventoryRow(n, stores_df[1], ProductRows[n], 50)]

\* Section 2, lines 376-434
Eda ==
    /\ pc = "eda"
    /\ regional_perf' = RegionalPerf(transactions_data)
    /\ behavior_summary' = BehaviorSummary(transactions_data)
    /\ UNCHANGED insights
    /\ pc' = "viz"
    /\ UNCHANGED invVars
    /\ UNCHANGED <<i, tier_ix, store_id, stores_data, customers_data,
                   products_df, transactions_data, loc, store_perf, le_classes,
                   trained, warned, images, cluster_profiles, cluster_names,
                   listed_files, error>>

\* a variant of Section 3 that writes a column of transactions_df in place
Viz_writesback ==
    /\ pc = "viz"
    /\ images' = images \cup VizFiles
    /\ transactions_data' =
           [k \in 1..Len(transactions_data) |->
               [transactions_data[k] EXCEPT !.transaction_date = 0]]
    /\ pc' = "classifier"
    /\ UNCHANGED invVars
    /\ UNCHANGED <<i, tier_ix, store_id, stores_data, customers_data,
                   products_df, loc, regional_perf, store_perf, le_classes,
                   trained, warned, cluster_profiles, cluster_names,
                   listed_files, error, behavior_summary, insights>>

\* Section 3, lines 440-646
Viz ==
    /\ pc = "viz"
    /\ images' = images \cup VizFiles
    /\ pc' = "classifier"
    /\ UNCHANGED invVars
    /\ UNCHANGED behavior_summary
    /\ UNCHANGED insights
    /\ UNCHANGED <<i, tier_ix, store_id, stores_data, customers_data,
                   products_df, transactions_data, loc, regional_perf,
                   store_perf, le_classes, trained, warned, cluster_profiles,
                   cluster_names, listed_files, error>>

\* line 688: len(y.unique()) > 1
Diverse(perf) == Cardinality({perf[s].high_risk : s \in DOMAIN perf}) > 1

\* Section 4, lines 652-726: per-store table, label, encoder fit, and either
\* the training branch (which saves the feature importance chart) or the
\* warning
Classifier ==
    /\ pc = "classifier"
    /\ LET perf == StorePerf(transactions_data)
       IN  /\ store_perf' = perf
           /\ le_classes' = {perf[s].region_tier : s \in DOMAIN perf}
           /\ IF Diverse(perf)
              THEN /\ trained' = TRUE
                   /\ images' = images
                          \cup {"images/feature_importance_margin_risk.png"}
                   /\ warned' = warned
              ELSE /\ warned' = TRUE
                   /\ UNCHANGED <<trained, images>>
    /\ pc' = "clv"
    /\ UNCHANGED invVars
    /\ UNCHANGED behavior_summary
    /\ UNCHANGED insights
    /\ UNCHANGED <<i, tier_ix, store_id, stores_data, customers_data,
                   products_df, transactions_data, loc, regional_perf,
                   cluster_profiles, cluster_names, listed_files, error>>

\* Section 5, lines 732-780: le.transform raises ValueError on a tier the
\* encoder was not fitted on
Clv ==
    /\ pc = "clv"
    /\ IF CustFeatureTiers(transactions_data) \subseteq le_classes
       THEN /\ images' = images \cup {"images/clv_prediction.png"}
            /\ pc' = "segmentation"
            /\ error' = error
       ELSE /\ pc' = "failed"
            /\ error' = "ValueError"
            /\ images' = images
    /\ UNCHANGED invVars
    /\ UNCHANGED behavior_summary
    /\ UNCHANGED insights
    /\ UNCHANGED <<i, tier_ix, store_id, stores_data, customers_data,
                   products_df, transactions_data, loc, regional_perf,
                   store_perf, le_classes, trained, warned, cluster_profiles,
                   cluster_names, listed_files>>

\* cluster profile tables the clustering is taken to produce in this stage:
\* one with the three rules on three clusters, one with the maximum revenue
\* and maximum purchase count on the same cluster
SegProfiles ==
    {[c \in Clusters |->
        [avg_revenue |-> <<3, 2, 1, 2>>[c + 1],
         avg_purchases |-> <<2, 3, 1, 1>>[c + 1]]],
     [c \in Clusters |->
        [avg_revenue |-> <<3, 2, 1, 2>>[c + 1],
         avg_purchases |-> <<3, 2, 1, 1>>[c + 1]]]}

\* Section 6, lines 786-878
Segmentation ==
    /\ pc = "segmentation"
    /\ \E profiles \in SegProfiles :
          /\ cluster_profiles' = profiles
          /\ cluster_names' = ClusterNames(profiles)
    /\ images' = images \cup {"images/clustering_optimization.png",
                              "images/customer_segmentation.png"}
    /\ pc' = "insights"
    /\ UNCHANGED invVars
    /\ UNCHANGED behavior_summary
    /\ UNCHANGED insights
    /\ UNCHANGED <<i, tier_ix, store_id, stores_data, customers_data,
                   products_df, transactions_data, loc, regional_perf,
                   store_perf, le_classes, trained, warned, listed_files,
                   error>>

\* the row labels the insight statements look up with .loc (lines 889-923)
InsightTiers == {"Metro", "Tier 2", "Tier 3"}

\* line 916: tier3_spoilage / metro_spoilage if metro_spoilage > 0 else 0,
\* the quotient in 1e-2
SpoilageRatio(tier3_spoilage, metro_spoilage) ==
    IF metro_spoilage > 0 THEN RoundDiv(tier3_spoilage * 100, metro_spoilage)
    ELSE 0

\* Section 7, lines 884-927: .loc raises KeyError on a tier without a row; the
\* spoilage figures of insight 5 are lines 913-917
Insights ==
    /\ pc = "insights"
    /\ IF InsightTiers \subseteq DOMAIN regional_perf
       THEN /\ pc' = "recommendations"
            /\ error' = error
            /\ insights' =
                   [tier3_spoilage |-> regional_perf["Tier 3"].AvgSpoilageCost,
                    metro_spoilage |-> regional_perf["Metro"].AvgSpoilageCost,
                    spoilage_ratio |->
                        SpoilageRatio(regional_perf["Tier 3"].AvgSpoilageCost,
                                      regional_perf["Metro"].AvgSpoilageCost)]
       ELSE /\ pc' = "failed"
            /\ error' = "KeyError"
            /\ insights' = insights
    /\ UNCHANGED invVars
    /\ UNCHANGED behavior_summary
    /\ UNCHANGED <<i, tier_ix, store_id, stores_data, customers_data,
                   products_df, transactions_data, loc, regional_perf,
                   store_perf, le_classes, trained, warned, images,
                   cluster_profiles, cluster_names, listed_files>>

\* Section 8, lines 933-984
Recommendations ==
    /\ pc = "recommendations"
    /\ pc' = "summary"
    /\ UNCHANGED invVars
    /\ UNCHANGED <<i, tier_ix, store_id, stores_data, customers_data,
                   products_df, transactions_data, loc>>
    /\ UNCHANGED pipeVars

\* lines 990-1018
Summary ==
    /\ pc = "summary"
    /\ listed_files' = SummaryFiles
    /\ pc' = "done"
    /\ UNCHANGED invVars
    /\ UNCHANGED behavior_summary
    /\ UNCHANGED insights
    /\ UNCHANGED <<i, tier_ix, store_id, stores_data, customers_data,
                   products_df, transactions_data, loc, regional_perf,
                   store_perf, le_classes, trained, warned, images,
                   cluster_profiles, cluster_names, error>>

\* a row of the transaction table the stages are run on: customer c of
\* CustomerRows buys product p of ProductRows at the home store or, in the
\* other branch of line 220, at the other sampled store of the tier, with the
\* samplers returning 2.7 (quantity), no discount, the first distance sample
\* of the tier, the largest spoilage sample of the tier and 0 days back
PipeRow(n, c, p, home) ==
    LET customer == CustomerRows[c]
        product == ProductRows[p]
        tier == customer.region_tier
        tier_stores == TierStores(stores_df, tier)
        store == CHOOSE st \in SeqRange(stores_df) :
                     IF home
                     THEN st.store_id = customer.primary_store_id
                     ELSE /\ st.store_id # customer.primary_store_id
                          /\ st \in {tier_stores[k] :
                                        k \in SampleIdx(Len(tier_stores))}
        distance == CHOOSE d \in DistanceSamples(tier) :
                        \A e \in DistanceSamples(tier) : d <= e
        share == CHOOSE x \in SpoilageSamples(tier) :
                     \A y \in SpoilageSamples(tier) : x >= y
    IN  TxnRow(n, customer, store, product,
               Financials(product.list_price, product.unit_cost,
                          product.is_perishable, tier, 27, 0, distance, share),
               0)

\* the (customer, product, home store?) choices of a row: any customer buys
\* Electronics or Fashion at the home store, or Electronics away from it;
\* the Metro and the Tier 3 customer also buy Fresh Produce at the home store
PipePicks ==
    ((1..Len(CustomerRows)) \X {3, 4} \X {TRUE})
        \cup ((1..Len(CustomerRows)) \X {3} \X {FALSE})
        \cup ({1, 3} \X {2} \X {TRUE})

\* the transaction tables of 1..max_rows rows the stages are run on
PipeTables(max_rows) ==
    UNION {{[k \in 1..n |-> PipeRow(k, pick[k][1], pick[k][2], pick[k][3])] :
               pick \in [1..n -> PipePicks]} :
           n \in 1..max_rows}

InitPipeline ==
    /\ pc = "eda"
    /\ i = MaxPipeTxns + 1
    /\ tier_ix = Len(TierSpecs) + 1
    /\ store_id = Len(stores_df) + 1
    /\ stores_data = stores_df
    /\ customers_data = CustomerRows
    /\ products_df = ProductRows
    /\ transactions_data \in PipeTables(MaxPipeTxns)
    /\ loc = NoLoc
    /\ prod_id = Len(ProductRows) + 1
    /\ inventory_data = InventoryRows
    /\ inv_id = Len(InventoryRows) + 1
    /\ inv_pos = NoPos
    /\ IdlePipeline

NextPipeline ==
    \/ Eda
    \/ Viz
    \/ Classifier
    \/ Clv
    \/ Segmentation
    \/ Insights
    \/ Recommendations
    \/ Summary

SpecPipeline == InitPipeline /\ [][NextPipeline]_vars

ClassifierRan == pc \notin {"eda", "viz", "classifier"}

\* the guard itself: with fewer than two label values training is skipped
\* and the warning is printed, and the later stages find `le` fitted
SkipAndWarn ==
    /\ (ClassifierRan /\ ~Diverse(store_perf)) => (warned /\ ~trained)
    /\ (ClassifierRan /\ Diverse(store_perf)) => (trained /\ ~warned)
    /\ error # "ValueError"

\* C4 as stated: if the per-store high_risk label takes fewer than two
\* values, training is skipped, the warning is printed, and the script still
\* runs every later stage through to the final summary without failing.
C4_SkipRunsToSummary ==
    (ClassifierRan /\ ~Diverse(store_perf))
        => /\ warned
           /\ ~trained
           /\ pc # "failed"
           /\ error = "none"

\* C5 as stated: every run that reaches the final summary has written all
\* eight chart files the summary lists, whichever branch the classifier
\* stage took.
C5_ListedFilesWritten ==
    pc = "done" => (listed_files = SummaryFiles /\ listed_files \subseteq images)

-----------------------------------------------------------------------------
(* The regional aggregation, lines 381-396, run repeatedly on one table *)

\* a variant that adds the new counts to the table of the previous run
RegionalAggregation_accumulate ==
    /\ pc \in {"aggregate", "aggregated"}
    /\ i < MaxAggRuns
    /\ regional_perf' =
           [tier \in DOMAIN RegionalPerf(transactions_data) |->
               [RegionalPerf(transactions_data)[tier] EXCEPT
                   !.Transactions =
                       @ + (IF tier \in DOMAIN regional_perf
                            THEN regional_perf[tier].Transactions ELSE 0)]]
    /\ i' = i + 1
    /\ pc' = "aggregated"
    /\ UNCHANGED invVars
    /\ UNCHANGED <<tier_ix, store_id, stores_data, customers_data,
                   products_df, transactions_data, loc, store_perf, le_classes,
                   trained, warned, images, cluster_profiles, cluster_names,
                   listed_files, error, behavior_summary, insights>>

\* one run of lines 383-396; i counts the runs
RegionalAggregation ==
    /\ pc \in {"aggregate", "aggregated"}
    /\ i < MaxAggRuns
    /\ regional_perf' = RegionalPerf(transactions_data)
    /\ i' = i + 1
    /\ pc' = "aggregated"
    /\ UNCHANGED invVars
    /\ UNCHANGED <<tier_ix, store_id, stores_data, customers_data,
                   products_df, transactions_data, loc, store_perf, le_classes,
                   trained, warned, images, cluster_profiles, cluster_names,
                   listed_files, error, behavior_summary, insights>>

InitAggregation ==
    /\ pc = "aggregate"
    /\ i = 0
    /\ tier_ix = Len(TierSpecs) + 1
    /\ store_id = Len(stores_df) + 1
    /\ stores_data = stores_df
    /\ customers_data = CustomerRows
    /\ products_df = ProductRows
    /\ transactions_data \in PipeTables(MaxPipeTxns)
    /\ loc = NoLoc
    /\ IdleInventory
    /\ IdlePipeline

NextAggregation == RegionalAggregation

SpecAggregation == InitAggregation /\ [][NextAggregation]_vars

TierTransactions(tier) ==
    IF tier \in DOMAIN regional_perf
    THEN regional_perf[tier].Transactions ELSE 0

TierUniqueCustomers(tier) ==
    IF tier \in DOMAIN regional_perf
    THEN regional_perf[tier].UniqueCustomers ELSE 0

\* C21: each transaction is counted in exactly one tier row of the regional
\* summary and each customer with a transaction in exactly one tier row: the
\* per-tier 'Transactions' values sum to the number of transactions (line
\* 1011) and the per-tier 'Unique Customers' values sum to the number of
\* distinct customers that have a transaction (line 1014).
C21_TierRowsPartition ==
    pc = "aggregated" =>
        /\ DOMAIN regional_perf \subseteq Tiers
        /\ TierTransactions("Metro") + TierTransactions("Tier 2")
               + TierTransactions("Tier 3") = Len(transactions_data)
        /\ TierUniqueCustomers("Metro") + TierUniqueCustomers("Tier 2")
               + TierUniqueCustomers("Tier 3")
               = Cardinality({transactions_data[k].customer_id :
                                 k \in 1..Len(transactions_data)})
        /\ \A k \in 1..Len(transactions_data) :
              Cardinality({tier \in DOMAIN regional_perf :
                              transactions_data[k].region_tier = tier}) = 1

\* a table of three rows in two tiers, one customer buying twice
C21_Witness ==
    /\ pc = "aggregated"
    /\ Len(transactions_data) = 3
    /\ Cardinality(DOMAIN regional_perf) = 2
    /\ Cardinality({transactions_data[k].customer_id :
                       k \in 1..Len(transactions_data)}) = 2
    /\ \E tier \in DOMAIN regional_perf :
          /\ regional_perf[tier].Transactions = 2
          /\ regional_perf[tier].UniqueCustomers = 1

\* C14: once the five entity tables (stores, products, customers,
\* transactions, inventory) are generated, no later stage adds, removes or
\* changes a row or column of any of them; the stages write derived tables
\* only.
C14_EntityTablesWriteOnce ==
    [][/\ stores_data' = stores_data
       /\ products_df' = products_df
       /\ customers_data' = customers_data
       /\ transactions_data' = transactions_data
       /\ inventory_data' = inventory_data]_vars

\* a run has gone through every stage, with the derived tables written
C14_Witness ==
    /\ pc = "done"
    /\ transactions_data # <<>>
    /\ inventory_data # <<>>
    /\ regional_perf # <<>>
    /\ behavior_summary # <<>>
    /\ store_perf # <<>>
    /\ cluster_names # <<>>
    /\ VizFiles \subseteq images

\* C18 as stated: for every tier with a purchasing customer the reported
\* Repeat Rate % is a number in [0, 100], equal to 100 times the customers of
\* the tier with 3 or more transactions over its customers with a
\* transaction; it is 0, not a missing value, when no customer has 3.
C18_RepeatRateIsNumber ==
    pc \notin {"eda"} =>
        \A tier \in DOMAIN behavior_summary :
            LET row == behavior_summary[tier]
            IN  /\ ~row.RepeatRatePct.isnan
                /\ row.RepeatRatePct.value \in 0..10000
                /\ row.RepeatRatePct.value
                       = RoundPct(row.RepeatCustomers, row.TotalCustomers)
                /\ row.RepeatCustomers = 0 => row.RepeatRatePct = Num(0)

\* what the table holds: the rate where some customer of the tier has 3
\* purchases, a missing value otherwise
RepeatRateOrMissing ==
    pc \notin {"eda"} =>
        \A tier \in DOMAIN behavior_summary :
            LET row == behavior_summary[tier]
            IN  /\ row.TotalCustomers >= 1
                /\ row.RepeatCustomers >= 1 =>
                      /\ row.RepeatRatePct.value \in 1..10000
                      /\ row.RepeatRatePct
                             = Num(RoundPct(row.RepeatCustomers, row.TotalCustomers))
                /\ row.RepeatCustomers = 0 => row.RepeatRatePct = NaN

\* C20: the tier label encoder is fitted on the tiers of the stores that have
\* a transaction and later applied to the tiers of the customers that have a
\* transaction; every tier it is applied to is among the tiers it was fitted
\* on, so the CLV feature encoding never meets an unseen tier.
C20_EncoderSeesEveryTier ==
    /\ ClassifierRan =>
          /\ le_classes = {StoreById(transactions_data[k].store_id).region_tier :
                              k \in 1..Len(transactions_data)}
          /\ CustFeatureTiers(transactions_data) \subseteq le_classes
    /\ error # "ValueError"
    /\ pc \in {"segmentation", "insights", "recommendations", "summary", "done"}
          => "images/clv_prediction.png" \in images

\* the CLV stage has encoded the tiers of a table with two tiers and a sale
\* served away from the customer's home store
C20_Witness ==
    /\ pc = "segmentation"
    /\ Cardinality(le_classes) = 2
    /\ CustFeatureTiers(transactions_data) = le_classes
    /\ \E k \in 1..Len(transactions_data) :
          transactions_data[k].store_id
              # CustomerOf(transactions_data[k]).primary_store_id

InsightsRan == pc \in {"recommendations", "summary", "done"}

\* C22: every Metro transaction has spoilage_cost 0, so the Metro average
\* spoilage cost in the regional summary is 0 in every run, and the spoilage
\* ratio of insight 5 takes its guarded fallback value 0 in every run,
\* whatever the Tier 3 average spoilage cost is.
C22_SpoilageRatioIsFallback ==
    /\ \A k \in 1..Len(transactions_data) :
          transactions_data[k].region_tier = "Metro"
              => transactions_data[k].spoilage_cost = 0
    /\ (pc # "eda" /\ "Metro" \in DOMAIN regional_perf)
          => regional_perf["Metro"].AvgSpoilageCost = 0
    /\ InsightsRan =>
          /\ insights.metro_spoilage = 0
          /\ insights.spoilage_ratio = 0

\* insight 5 was computed on a table with a perishable Metro sale and a
\* Tier 3 sale that was charged spoilage
C22_Witness ==
    /\ InsightsRan
    /\ insights.tier3_spoilage > 0
    /\ insights.spoilage_ratio = 0
    /\ \E k \in 1..Len(transactions_data) :
          /\ transactions_data[k].region_tier = "Metro"
          /\ transactions_data[k].is_perishable

=============================================================================
